---- MODULE Spec2Model ----
(***************************************************************************)
(* Farm-management backend: the account state machine, the OTP protocol    *)
(* and the role-scoped authorization of the animal store, as state         *)
(* machines over the relational tables the handlers read and write.        *)
(*                                                                         *)
(* Each handler runs inside one request and commits before it returns;     *)
(* an action is one whole request, except in the last specification,       *)
(* where two workers serve requests side by side and an action is one      *)
(* database round trip of a handler.  Requests are well-formed JSON: the   *)
(* format validators (email, phone, password strength) are not modelled.   *)
(***************************************************************************)
EXTENDS Integers, Sequences, FiniteSets, TLC

VARIABLES
    users,      \* the users table: a sequence of rows, a row's id is its index
    animals,    \* the animals table, likewise
    records,    \* the health_records table, likewise
    now,        \* datetime.utcnow(), in minutes
    resp,       \* the response of the last request
    inflight    \* the requests being served side by side: for each worker,
                \* the statement it has reached and what its session holds

vars == <<users, animals, records, now, resp, inflight>>

(***************************************************************************)
(* Bounds and input sets                                                   *)
(***************************************************************************)
MaxNow == 35
TickSteps == {5, 10}

\* VALIDATION_RULES / the defaults of verify_otp and reset_password
OTP_VALIDITY_MINUTES == 10
PASSWORD_RESET_VALIDITY_MINUTES == 30

NULL == "NULL"
NoTime == -1
NoUser == 0

\* the codes generate_otp may draw (six digits each)
Codes == {"111111", "222222"}

FARMER == "farmer"
VETERINARIAN == "veterinarian"
ADMIN == "admin"
UserRole == {FARMER, VETERINARIAN, ADMIN}

ACTIVE == "active"
INACTIVE == "inactive"
PENDING == "pending"
SUSPENDED == "suspended"
UserStatus == {ACTIVE, INACTIVE, PENDING, SUSPENDED}

AdminProfile == [email |-> "admin@farmportal.com", phone |-> "9876543210"]

\* identities a registration request may carry: a fresh one, one whose phone
\* is the seeded administrator's, one whose email is the seeded administrator's
Profiles ==
    { [email |-> "a@x.com", phone |-> "9876543212"],
      [email |-> "b@x.com", phone |-> "9876543210"],
      [email |-> "admin@farmportal.com", phone |-> "9876543213"] }

\* emails a lookup request may carry: the last one belongs to nobody
LookupEmails == {"a@x.com", "admin@farmportal.com", "nobody@x.com"}

\* ids a request path may name: the last one is no row's
RowIds == {1, 2, 3}

\* the password every account is created with, and the ones a reset may set
InitialPassword == "Abcd1234!"
NewPasswords == {"Abcd1234!", "Wxyz5678!"}

VerificationTypes == {"email", "phone", "both"}
StatusInputs == UserStatus \cup {"deleted"}

(***************************************************************************)
(* models/user.py                                                          *)
(***************************************************************************)
UserRow(role, p, st, verified) ==
    [ user_type      |-> role,
      email          |-> p.email,
      phone          |-> p.phone,
      status         |-> st,
      is_active      |-> TRUE,
      deleted_at     |-> NoTime,
      email_verified |-> verified,
      phone_verified |-> verified,
      otp_code       |-> NULL,
      otp_created_at |-> NoTime,
      otp_purpose    |-> "none",    \* history: the purpose the stored code was issued for
      password       |-> InitialPassword ]

is_verified(u) == u.email_verified /\ u.phone_verified

\* a variant that looks at the status alone
can_login_status_only(u) == u.status = ACTIVE

can_login(u) == u.status = ACTIVE /\ is_verified(u)

\* check_password: the stored hash is the hash of this password
check_password(u, password) == u.password = password

UserIds == DOMAIN users

\* User.query.filter_by(email=email, is_active=True).first()
ActiveByEmail(e) == {i \in UserIds : users[i].email = e /\ users[i].is_active}

FindActiveByEmail(e) ==
    IF ActiveByEmail(e) = {} THEN NoUser
    ELSE CHOOSE i \in ActiveByEmail(e) : \A j \in ActiveByEmail(e) : i <= j

\* User.query.filter_by(id=user_id, is_active=True).first()
FindActiveById(id) ==
    IF id \in UserIds /\ users[id].is_active THEN id ELSE NoUser

(***************************************************************************)
(* utils/helpers.py, auth/utils.py, services/otp_service.py                *)
(***************************************************************************)
\* a variant that still accepts a code at exactly created_at + validity_minutes
is_otp_valid_inclusive(created_at, validity_minutes, t) ==
    IF created_at = NoTime THEN FALSE
    ELSE t <= created_at + validity_minutes

is_otp_valid(created_at, validity_minutes, t) ==
    IF created_at = NoTime THEN FALSE
    ELSE t < created_at + validity_minutes

verify_otp(u, provided_otp, validity_minutes, t) ==
    IF u.otp_code = NULL \/ u.otp_created_at = NoTime
        THEN "No OTP found for this user"
    ELSE IF u.otp_code # provided_otp
        THEN "Invalid OTP"
    ELSE IF ~is_otp_valid(u.otp_created_at, validity_minutes, t)
        THEN "OTP has expired"
    ELSE "OTP verified successfully"

\* generate_and_store_otp / OTPService.generate_otp_for_user: the purpose is
\* logged, never stored
\* a variant that stores the code without its issue timestamp
generate_and_store_otp_code_only(u, code, purpose, t) ==
    [u EXCEPT !.otp_code = code, !.otp_purpose = purpose]

generate_and_store_otp(u, code, purpose, t) ==
    [u EXCEPT !.otp_code = code, !.otp_created_at = t, !.otp_purpose = purpose]

\* a variant that blanks the timestamp and leaves the code in its column
clear_otp_timestamp_only(u) ==
    [u EXCEPT !.otp_created_at = NoTime, !.otp_purpose = "none"]

clear_otp(u) ==
    [u EXCEPT !.otp_code = NULL, !.otp_created_at = NoTime, !.otp_purpose = "none"]

\* a variant that activates on any successful verification
verify_user_account_always_active(u, verification_type) ==
    LET e == IF verification_type \in {"email", "both"} THEN TRUE ELSE u.email_verified
        p == IF verification_type \in {"phone", "both"} THEN TRUE ELSE u.phone_verified
    IN  [u EXCEPT !.email_verified = e, !.phone_verified = p, !.status = ACTIVE]

verify_user_account(u, verification_type) ==
    LET e == IF verification_type \in {"email", "both"} THEN TRUE ELSE u.email_verified
        p == IF verification_type \in {"phone", "both"} THEN TRUE ELSE u.phone_verified
    IN  [u EXCEPT !.email_verified = e,
                  !.phone_verified = p,
                  !.status = IF e /\ p THEN ACTIVE ELSE u.status]

reset_user_password(u, new_password) == [u EXCEPT !.password = new_password]

(***************************************************************************)
(* services/user_service.py                                                *)
(***************************************************************************)
\* the duplicate check of create_farmer / create_veterinarian / create_admin:
\* any row, soft-deleted or not, with this email or this phone
ExistingUser(p) ==
    \E i \in UserIds : users[i].email = p.email \/ users[i].phone = p.phone

deactivate_user(u) == [u EXCEPT !.status = INACTIVE, !.is_active = FALSE]

(***************************************************************************)
(* utils/decorators.py                                                     *)
(***************************************************************************)
\* auth_required, then role_required(*roles): the status and message of the
\* refusal, or 200 when the handler runs.  The bearer token names a user row.
AuthStatus(actor, roles) ==
    IF FindActiveById(actor) = NoUser THEN 401
    ELSE IF ~can_login(users[actor]) THEN 403
    ELSE IF users[actor].user_type \notin roles THEN 403
    ELSE 200

AuthMsg(actor, roles) ==
    IF FindActiveById(actor) = NoUser THEN "User not found or inactive"
    ELSE IF ~can_login(users[actor]) THEN "User account is not active or not verified"
    ELSE IF users[actor].user_type \notin roles THEN "Access denied. Required roles"
    ELSE "ok"

\* what a request carried and what it was answered: the handler, the bearer's
\* user id, the row the request named, the argument that decides the outcome,
\* the HTTP status, the message, and the data returned
\* the data field of a response: the animal rows and health-record rows it
\* serialises (or, for a summary, counts), and the total it reports
Data(animal_ids, record_ids, total) ==
    [animals |-> animal_ids, records |-> record_ids, total |-> total, present |-> TRUE]

\* create_response with data=None: the body has no data field
NoData == [animals |-> <<>>, records |-> {}, total |-> 0, present |-> FALSE]

\* the data field of an account response: a user row, tokens or a notice
AccountData == Data(<<>>, {}, 0)

DataResponse(op, actor, target, arg, status, msg, data) ==
    [op |-> op, actor |-> actor, target |-> target, arg |-> arg,
     status |-> status, msg |-> msg, data |-> data]

Response(op, actor, target, arg, status, msg) ==
    DataResponse(op, actor, target, arg, status, msg, NoData)

NoResponse == Response("none", NoUser, NoUser, NULL, 0, "")

\* the workers of the server, and a worker that is serving nothing
Workers == {1, 2}

IdleRequest ==
    [ pc |-> "idle", op |-> "none", email |-> NULL, phone |-> NULL,
      code |-> NULL, arg |-> NULL, id |-> NoUser, t |-> NoTime,
      email_verified |-> FALSE, phone_verified |-> FALSE,
      wrote |-> "none",     \* what the request has committed so far
      status |-> 0 ]        \* the HTTP status it answered with, 0 before

NoRequests == [w \in Workers |-> IdleRequest]

(***************************************************************************)
(* api/users.py: registration                                              *)
(***************************************************************************)
\* register_farmer / register_veterinarian: create_*, then
\* initiate_user_verification stores a fresh code
RegisterSelf(op, role, p, code) ==
    /\ IF ExistingUser(p)
       THEN /\ resp' = Response(op, NoUser, NoUser, p.email, 400,
                                "User with this email or phone already exists")
            /\ UNCHANGED users
       ELSE /\ users' = Append(users,
                   generate_and_store_otp(UserRow(role, p, PENDING, FALSE),
                                          code, "verification", now))
            /\ resp' = DataResponse(op, NoUser, Len(users) + 1, p.email, 201,
                                    "registered successfully", AccountData)
    /\ UNCHANGED <<animals, records, now, inflight>>

register_farmer(p, code) == RegisterSelf("register_farmer", FARMER, p, code)

register_veterinarian(p, code) ==
    RegisterSelf("register_veterinarian", VETERINARIAN, p, code)

\* register_admin: admin_required, then create_admin (active and pre-verified)
register_admin(actor, p) ==
    /\ IF AuthStatus(actor, {ADMIN}) # 200
       THEN /\ resp' = Response("register_admin", actor, NoUser, p.email,
                                AuthStatus(actor, {ADMIN}), AuthMsg(actor, {ADMIN}))
            /\ UNCHANGED users
       ELSE IF ExistingUser(p)
       THEN /\ resp' = Response("register_admin", actor, NoUser, p.email, 400,
                                "User with this email or phone already exists")
            /\ UNCHANGED users
       ELSE /\ users' = Append(users, UserRow(ADMIN, p, ACTIVE, TRUE))
            /\ resp' = DataResponse("register_admin", actor, Len(users) + 1, p.email,
                                    201, "Admin created successfully", AccountData)
    /\ UNCHANGED <<animals, records, now, inflight>>

(***************************************************************************)
(* auth/routes.py and api/users.py: the OTP endpoints                      *)
(***************************************************************************)
\* POST /verify-otp (verify_otp, verify_user_account, clear_otp) and
\* POST /users/verify (UserService.verify_user_account): the same checks and
\* the same writes, committed before the response; /users/verify returns
\* the user row as data
VerifyRequest(op, email, provided_otp, verification_type) ==
    LET id == FindActiveByEmail(email)
        verdict == verify_otp(users[id], provided_otp, OTP_VALIDITY_MINUTES, now)
    IN  /\ IF id = NoUser
           THEN /\ resp' = Response(op, NoUser, NoUser, provided_otp, 404, "User not found")
                /\ UNCHANGED users
           ELSE IF verdict # "OTP verified successfully"
           THEN /\ resp' = Response(op, NoUser, id, provided_otp, 400, verdict)
                /\ UNCHANGED users
           ELSE /\ users' = [users EXCEPT ![id] =
                        clear_otp(verify_user_account(users[id], verification_type))]
                /\ resp' = DataResponse(op, NoUser, id, provided_otp, 200,
                                        "Account verified successfully",
                                        IF op = "verify_user" THEN AccountData ELSE NoData)
        /\ UNCHANGED <<animals, records, now, inflight>>

verify_otp_endpoint(email, provided_otp, verification_type) ==
    VerifyRequest("verify_otp_endpoint", email, provided_otp, verification_type)

verify_user(email, provided_otp, verification_type) ==
    VerifyRequest("verify_user", email, provided_otp, verification_type)

\* POST /resend-otp and POST /users/resend-verification
ResendRequest(op, email, code) ==
    LET id == FindActiveByEmail(email)
    IN  /\ IF id = NoUser
           THEN /\ resp' = Response(op, NoUser, NoUser, NULL, 404, "User not found")
                /\ UNCHANGED users
           ELSE IF is_verified(users[id])
           THEN /\ resp' = Response(op, NoUser, id, NULL, 400, "User is already verified")
                /\ UNCHANGED users
           ELSE /\ users' = [users EXCEPT ![id] =
                        generate_and_store_otp(users[id], code, "verification", now)]
                /\ resp' = DataResponse(op, NoUser, id, NULL, 200,
                                        IF op = "resend_otp" THEN "OTP sent successfully"
                                        ELSE "Verification code sent",
                                        AccountData)
        /\ UNCHANGED <<animals, records, now, inflight>>

resend_otp(email, code) == ResendRequest("resend_otp", email, code)

resend_verification(email, code) == ResendRequest("resend_verification", email, code)

\* authenticate_user: the user row, or NoUser and the reason
authenticate_user(email, password) ==
    LET id == FindActiveByEmail(email)
    IN  IF id = NoUser
            THEN [user |-> NoUser, error |-> "Invalid email or password"]
        ELSE IF ~check_password(users[id], password)
            THEN [user |-> NoUser, error |-> "Invalid email or password"]
        ELSE IF ~can_login(users[id])
            THEN [user |-> NoUser,
                  error |-> IF users[id].status = PENDING
                                THEN "Account is pending verification"
                            ELSE IF users[id].status = INACTIVE
                                THEN "Account is inactive"
                            ELSE IF users[id].status = SUSPENDED
                                THEN "Account is suspended"
                            ELSE "Account verification required"]
        ELSE [user |-> id, error |-> NULL]

\* POST /login: the tokens and the profile are the data of the response
login(email, password) ==
    LET auth == authenticate_user(email, password)
        credentials == [email |-> email, password |-> password]
    IN  /\ resp' = IF auth.user = NoUser
                   THEN Response("login", NoUser, NoUser, credentials, 401, auth.error)
                   ELSE DataResponse("login", NoUser, auth.user, credentials, 200,
                                     "Login successful", AccountData)
        /\ UNCHANGED <<users, animals, records, now, inflight>>

\* POST /forgot-password
forgot_password(email, code) ==
    LET id == FindActiveByEmail(email)
    IN  /\ IF id = NoUser
           THEN /\ resp' = Response("forgot_password", NoUser, NoUser, NULL, 200,
                                    "If the email exists, a reset code has been sent")
                /\ UNCHANGED users
           ELSE /\ users' = [users EXCEPT ![id] =
                        generate_and_store_otp(users[id], code, "password_reset", now)]
                /\ resp' = DataResponse("forgot_password", NoUser, id, NULL, 200,
                                        "Password reset code sent", AccountData)
        /\ UNCHANGED <<animals, records, now, inflight>>

\* POST /reset-password
reset_password(email, reset_code, new_password) ==
    LET id == FindActiveByEmail(email)
        verdict == verify_otp(users[id], reset_code, PASSWORD_RESET_VALIDITY_MINUTES, now)
    IN  /\ IF id = NoUser
           THEN /\ resp' = Response("reset_password", NoUser, NoUser, reset_code, 400,
                                    "Invalid reset code")
                /\ UNCHANGED users
           ELSE IF verdict # "OTP verified successfully"
           THEN /\ resp' = Response("reset_password", NoUser, id, reset_code, 400, verdict)
                /\ UNCHANGED users
           ELSE /\ users' = [users EXCEPT ![id] =
                        clear_otp(reset_user_password(users[id], new_password))]
                /\ resp' = Response("reset_password", NoUser, id, reset_code, 200,
                                    "Password reset successfully")
        /\ UNCHANGED <<animals, records, now, inflight>>

(***************************************************************************)
(* api/users.py: administration                                            *)
(***************************************************************************)
\* PUT /users/<user_id>/status
update_user_status(actor, user_id, new_status) ==
    LET id == FindActiveById(user_id)
        op == "update_user_status"
    IN  /\ IF AuthStatus(actor, {ADMIN}) # 200
           THEN /\ resp' = Response(op, actor, user_id, new_status,
                                    AuthStatus(actor, {ADMIN}), AuthMsg(actor, {ADMIN}))
                /\ UNCHANGED users
           ELSE IF new_status \notin UserStatus
           THEN /\ resp' = Response(op, actor, user_id, new_status, 400, "Invalid status")
                /\ UNCHANGED users
           ELSE IF id = NoUser
           THEN /\ resp' = Response(op, actor, user_id, new_status, 404, "User not found")
                /\ UNCHANGED users
           ELSE /\ users' = [users EXCEPT ![id] =
                        [@ EXCEPT !.status = new_status,
                                  !.is_active = IF new_status = INACTIVE THEN FALSE
                                                ELSE IF new_status \in {ACTIVE, PENDING} THEN TRUE
                                                ELSE @]]
                /\ resp' = DataResponse(op, actor, user_id, new_status, 200,
                                        "User status updated", AccountData)
        /\ UNCHANGED <<animals, records, now, inflight>>

\* DELETE /users/<user_id>
delete_user(actor, user_id) ==
    LET id == FindActiveById(user_id)
        op == "delete_user"
    IN  /\ IF AuthStatus(actor, {ADMIN}) # 200
           THEN /\ resp' = Response(op, actor, user_id, NULL,
                                    AuthStatus(actor, {ADMIN}), AuthMsg(actor, {ADMIN}))
                /\ UNCHANGED users
           ELSE IF id = NoUser
           THEN /\ resp' = Response(op, actor, user_id, NULL, 404, "User not found")
                /\ UNCHANGED users
           ELSE IF users[id].user_type = ADMIN /\ id # actor
           THEN /\ resp' = Response(op, actor, user_id, NULL, 403,
                                    "Cannot delete other admin users")
                /\ UNCHANGED users
           ELSE /\ users' = [users EXCEPT ![id] = deactivate_user(users[id])]
                /\ resp' = Response(op, actor, user_id, NULL, 200, "User deleted successfully")
        /\ UNCHANGED <<animals, records, now, inflight>>

(***************************************************************************)
(* models/animal.py                                                        *)
(***************************************************************************)
AnimalSpecies == {"cattle", "buffalo", "goat", "sheep", "poultry", "swine", "other"}
Gender == {"male", "female"}
HEALTHY == "healthy"
HealthStatus ==
    {HEALTHY, "sick", "under_treatment", "recovering", "quarantine", "deceased"}

NoAnimal == 0
\* an absent or empty text value
NoText == <<>>
Invalid == "ValueError"

\* Enum(value.lower()): the member, or ValueError.  Request values are drawn
\* from the input sets below, so lower() is given on their capitalised forms.
str_lower(s) ==
    CASE s = "Cattle" -> "cattle"
      [] s = "Poultry" -> "poultry"
      [] s = "Sick" -> "sick"
      [] OTHER -> s

ParseEnum(value, members) ==
    IF str_lower(value) \in members THEN str_lower(value) ELSE Invalid

\* text columns the free-text search reads are sequences of characters
char_lower(c) ==
    CASE c = "C" -> "c"
      [] c = "H" -> "h"
      [] c = "L" -> "l"
      [] OTHER -> c

text_lower(t) == [i \in DOMAIN t |-> char_lower(t[i])]

Contains(t, sub) ==
    \E i \in 0..(Len(t) - Len(sub)) : SubSeq(t, i + 1, i + Len(sub)) = sub

\* column.ilike('%' + search + '%'); a NULL column matches nothing
ilike(column, search) ==
    /\ column # NoText
    /\ Contains(text_lower(column), text_lower(search))

AnimalRow(form, species, gender, farmer_id) ==
    [ tag_id          |-> form.tag_id,
      name            |-> form.name,
      species         |-> species,
      gender          |-> gender,
      health_status   |-> HEALTHY,
      farmer_id       |-> farmer_id,
      veterinarian_id |-> NoUser,
      last_checkup_date |-> NoTime,
      is_active       |-> TRUE,
      deleted_at      |-> NoTime ]

HealthRecordRow(animal_id, recorded_by_id, overall_condition) ==
    [ animal_id         |-> animal_id,
      recorded_by_id    |-> recorded_by_id,
      checkup_date      |-> now,
      overall_condition |-> overall_condition,
      is_active         |-> TRUE ]

\* BaseModel.soft_delete
soft_delete(row) == [row EXCEPT !.is_active = FALSE, !.deleted_at = now]

AnimalIds == DOMAIN animals

\* Animal.query.filter_by(is_active=True)
ActiveAnimals == {i \in AnimalIds : animals[i].is_active}

\* Animal.query.filter_by(id=animal_id, is_active=True).first()
FindActiveAnimal(animal_id) ==
    IF animal_id \in ActiveAnimals THEN animal_id ELSE NoAnimal

\* Farmer.query / Veterinarian.query .filter_by(id=..., is_active=True).first()
FindActiveRole(id, role) ==
    IF FindActiveById(id) # NoUser /\ users[id].user_type = role THEN id ELSE NoUser

\* the ids of S as a sequence, newest row first: order_by(created_at.desc())
RECURSIVE NewestFirst(_)
NewestFirst(S) ==
    IF S = {} THEN <<>>
    ELSE LET m == CHOOSE i \in S : \A j \in S : j <= i
         IN  <<m>> \o NewestFirst(S \ {m})

Range(f) == {f[i] : i \in DOMAIN f}

Min(a, b) == IF a <= b THEN a ELSE b

\* utils/helpers.py paginate_query: the items of one page
DefaultPage == 1
DefaultPerPage == 20
MaxPerPage == 100

paginate_query(items, page, per_page) ==
    LET pp == Min(per_page, MaxPerPage)
    IN  SubSeq(items, (page - 1) * pp + 1, Min(page * pp, Len(items)))

\* filter_by(species=...), filter_by(health_status=...), and the search filter
BySpecies(S, species) == {i \in S : animals[i].species = species}

ByHealthStatus(S, health_status) == {i \in S : animals[i].health_status = health_status}

BySearch(S, search) ==
    {i \in S : ilike(animals[i].tag_id, search) \/ ilike(animals[i].name, search)}

\* the species, health_status and search filters applied to a scoped query:
\* the matching ids, or the parameter that is not a member of its enum
ApplyFilters(S, f, with_search) ==
    LET sp == IF f.species = NULL THEN NULL ELSE ParseEnum(f.species, AnimalSpecies)
        hs == IF f.health_status = NULL THEN NULL
              ELSE ParseEnum(f.health_status, HealthStatus)
        S1 == IF sp = NULL THEN S ELSE BySpecies(S, sp)
        S2 == IF hs = NULL THEN S1 ELSE ByHealthStatus(S1, hs)
    IN  IF sp = Invalid THEN [error |-> "Invalid species", ids |-> {}]
        ELSE IF hs = Invalid THEN [error |-> "Invalid health status", ids |-> {}]
        ELSE [error |-> NULL,
              ids |-> IF with_search /\ f.search # NoText THEN BySearch(S2, f.search) ELSE S2]

\* the access check of get_animal, update_animal and get_animal_health_records:
\* a variant that checks the veterinarian only
AccessDeniedVetOnly(actor, a) ==
    users[actor].user_type = VETERINARIAN /\ a.veterinarian_id # actor

AccessDenied(actor, a) ==
    IF users[actor].user_type = FARMER THEN a.farmer_id # actor
    ELSE IF users[actor].user_type = VETERINARIAN THEN a.veterinarian_id # actor
    ELSE FALSE

\* the ownership check of assign_veterinarian and delete_animal
FarmerDenied(actor, a) ==
    users[actor].user_type = FARMER /\ a.farmer_id # actor

\* the role query of list_animals, honouring a farmer_id parameter for
\* every role
ListQueryByParam(actor, farmer_id) ==
    IF farmer_id # NoUser THEN {i \in ActiveAnimals : animals[i].farmer_id = farmer_id}
    ELSE IF users[actor].user_type = FARMER
    THEN {i \in ActiveAnimals : animals[i].farmer_id = actor}
    ELSE IF users[actor].user_type = VETERINARIAN
    THEN {i \in ActiveAnimals : animals[i].veterinarian_id = actor}
    ELSE ActiveAnimals

\* the role query of list_animals: the farmer's own animals, the
\* veterinarian's assigned animals, and for an admin every animal or those of
\* the farmer_id parameter
ListQuery(actor, farmer_id) ==
    IF users[actor].user_type = FARMER
    THEN {i \in ActiveAnimals : animals[i].farmer_id = actor}
    ELSE IF users[actor].user_type = VETERINARIAN
    THEN {i \in ActiveAnimals : animals[i].veterinarian_id = actor}
    ELSE IF farmer_id # NoUser
    THEN {i \in ActiveAnimals : animals[i].farmer_id = farmer_id}
    ELSE ActiveAnimals

\* the search parameters search_animals builds: the user-specific filters
\* are set from the bearer, an admin's farmer_id from the query string
SearchParams(actor, f) ==
    [ species         |-> f.species,
      health_status   |-> f.health_status,
      search          |-> f.search,
      farmer_id       |-> IF users[actor].user_type = FARMER THEN actor
                          ELSE IF users[actor].user_type = ADMIN THEN f.farmer_id
                          ELSE NoUser,
      veterinarian_id |-> IF users[actor].user_type = VETERINARIAN THEN actor ELSE NoUser ]

\* AnimalService.search_animals
ServiceSearchAnimals(params) ==
    LET S0 == ActiveAnimals
        S1 == IF params.farmer_id # NoUser
              THEN {i \in S0 : animals[i].farmer_id = params.farmer_id} ELSE S0
        S2 == IF params.veterinarian_id # NoUser
              THEN {i \in S1 : animals[i].veterinarian_id = params.veterinarian_id} ELSE S1
    IN  ApplyFilters(S2, params, TRUE)

(***************************************************************************)
(* api/animals.py, api/farmers.py, services/animal_service.py              *)
(***************************************************************************)
\* a refusal by auth_required
AuthRefusal(op, actor, target, arg) ==
    Response(op, actor, target, arg, AuthStatus(actor, UserRole), AuthMsg(actor, UserRole))

\* AnimalService.create_animal: the new row, or the error message
ServiceCreateAnimal(form, farmer_id) ==
    LET species == ParseEnum(form.species, AnimalSpecies)
        gender == ParseEnum(form.gender, Gender)
    IN  IF FindActiveRole(farmer_id, FARMER) = NoUser
        THEN [error |-> "Farmer not found"]
        ELSE IF species = Invalid THEN [error |-> "Invalid species"]
        ELSE IF gender = Invalid THEN [error |-> "Invalid gender"]
        ELSE IF \E i \in ActiveAnimals : /\ animals[i].tag_id = form.tag_id
                                        /\ animals[i].farmer_id = farmer_id
        THEN [error |-> "An animal with this tag ID already exists for this farmer"]
        \* the unique index on animals.tag_id refuses the insert
        ELSE IF \E i \in AnimalIds : animals[i].tag_id = form.tag_id
        THEN [error |-> "Failed to create animal"]
        ELSE [row |-> AnimalRow(form, species, gender, farmer_id), error |-> NULL]

\* POST /animals
create_animal(actor, form, farmer_id) ==
    LET op == "create_animal"
        role == users[actor].user_type
        owner == IF role = FARMER THEN actor ELSE farmer_id
        made == ServiceCreateAnimal(form, owner)
    IN  /\ IF AuthStatus(actor, UserRole) # 200
           THEN /\ resp' = AuthRefusal(op, actor, NoAnimal, farmer_id)
                /\ UNCHANGED animals
           ELSE IF role = ADMIN /\ farmer_id = NoUser
           THEN /\ resp' = Response(op, actor, NoAnimal, farmer_id, 400,
                                    "farmer_id is required for admin users")
                /\ UNCHANGED animals
           ELSE IF role \notin {FARMER, ADMIN}
           THEN /\ resp' = Response(op, actor, NoAnimal, farmer_id, 403,
                                    "Only farmers and admins can create animals")
                /\ UNCHANGED animals
           ELSE IF made.error # NULL
           THEN /\ resp' = Response(op, actor, NoAnimal, farmer_id, 400, made.error)
                /\ UNCHANGED animals
           ELSE /\ animals' = Append(animals, made.row)
                /\ resp' = DataResponse(op, actor, Len(animals) + 1, farmer_id, 201,
                                        "Animal registered successfully",
                                        Data(<<Len(animals) + 1>>, {}, 0))
        /\ UNCHANGED <<users, records, now, inflight>>

\* GET /animals
list_animals(actor, f) ==
    LET op == "list_animals"
        found == ApplyFilters(ListQuery(actor, f.farmer_id), f, TRUE)
        items == paginate_query(NewestFirst(found.ids), DefaultPage, DefaultPerPage)
    IN  /\ IF AuthStatus(actor, UserRole) # 200
           THEN resp' = AuthRefusal(op, actor, NoAnimal, f)
           ELSE IF found.error # NULL
           THEN resp' = Response(op, actor, NoAnimal, f, 400, found.error)
           ELSE resp' = DataResponse(op, actor, NoAnimal, f, 200,
                                     "Animals retrieved successfully",
                                     Data(items, {}, Cardinality(found.ids)))
        /\ UNCHANGED <<users, animals, records, now, inflight>>

\* GET /animals/search
search_animals(actor, f) ==
    LET op == "search_animals"
        found == ServiceSearchAnimals(SearchParams(actor, f))
        items == NewestFirst(found.ids)
    IN  /\ IF AuthStatus(actor, UserRole) # 200
           THEN resp' = AuthRefusal(op, actor, NoAnimal, f)
           ELSE IF found.error # NULL
           THEN resp' = Response(op, actor, NoAnimal, f, 400, found.error)
           ELSE resp' = DataResponse(op, actor, NoAnimal, f, 200,
                                     "Animals search completed",
                                     Data(items, {}, Len(items)))
        /\ UNCHANGED <<users, animals, records, now, inflight>>

\* GET /animals/<animal_id>
get_animal(actor, animal_id) ==
    LET op == "get_animal"
        id == FindActiveAnimal(animal_id)
    IN  /\ IF AuthStatus(actor, UserRole) # 200
           THEN resp' = AuthRefusal(op, actor, animal_id, NULL)
           ELSE IF id = NoAnimal
           THEN resp' = Response(op, actor, animal_id, NULL, 404, "Animal not found")
           ELSE IF AccessDenied(actor, animals[id])
           THEN resp' = Response(op, actor, animal_id, NULL, 403, "Access denied")
           ELSE resp' = DataResponse(op, actor, animal_id, NULL, 200,
                                     "Animal retrieved successfully", Data(<<id>>, {}, 0))
        /\ UNCHANGED <<users, animals, records, now, inflight>>

ProductionStatus == {"active", "dry", "pregnant", "lactating", "breeding", "retired"}

UpdatableFields ==
    {"name", "breed", "weight_kg", "height_cm", "color", "health_status",
     "production_status", "daily_milk_yield", "lactation_number",
     "vaccination_status", "notes", "special_conditions"}

\* one turn of the loop of update_animal_profile, on one field of the body:
\* the row after it, and whether the field was applied.  A value an enum
\* does not recognize is skipped (except ValueError: continue).
update_field(a, field, value) ==
    IF field \notin UpdatableFields THEN [applied |-> FALSE, row |-> a]
    ELSE IF field = "health_status"
    THEN IF ParseEnum(value, HealthStatus) = Invalid THEN [applied |-> FALSE, row |-> a]
         ELSE [applied |-> TRUE,
               row |-> [a EXCEPT !.health_status = ParseEnum(value, HealthStatus)]]
    ELSE IF field = "production_status"
    THEN [applied |-> ParseEnum(value, ProductionStatus) # Invalid, row |-> a]
    ELSE [applied |-> TRUE, row |-> a]

\* AnimalService.update_animal_profile on a body, a sequence of <<field,
\* value>>: the row after every field, and whether any field was applied
RECURSIVE update_animal_profile(_, _)
update_animal_profile(a, update_data) ==
    IF update_data = <<>> THEN [applied |-> FALSE, row |-> a]
    ELSE LET first == update_field(a, update_data[1][1], update_data[1][2])
             rest == update_animal_profile(first.row, Tail(update_data))
         IN  [applied |-> first.applied \/ rest.applied, row |-> rest.row]

\* PUT /animals/<animal_id>
update_animal(actor, animal_id, update_data) ==
    LET op == "update_animal"
        id == FindActiveAnimal(animal_id)
        updated == update_animal_profile(animals[id], update_data)
    IN  /\ IF AuthStatus(actor, UserRole) # 200
           THEN /\ resp' = AuthRefusal(op, actor, animal_id, update_data)
                /\ UNCHANGED animals
           ELSE IF id = NoAnimal
           THEN /\ resp' = Response(op, actor, animal_id, update_data, 404,
                                    "Animal not found")
                /\ UNCHANGED animals
           ELSE IF AccessDenied(actor, animals[id])
           THEN /\ resp' = Response(op, actor, animal_id, update_data, 403,
                                    "Access denied")
                /\ UNCHANGED animals
           ELSE IF ~updated.applied
           THEN /\ resp' = Response(op, actor, animal_id, update_data, 400,
                                    "No valid fields to update")
                /\ UNCHANGED animals
           ELSE /\ animals' = [animals EXCEPT ![id] = updated.row]
                /\ resp' = DataResponse(op, actor, animal_id, update_data, 200,
                                        "Animal profile updated", Data(<<id>>, {}, 0))
        /\ UNCHANGED <<users, records, now, inflight>>

\* a variant that assigns a veterinarian of any status
ServiceAssignErrorAnyStatus(vet_id) ==
    IF FindActiveRole(vet_id, VETERINARIAN) = NoUser THEN "Veterinarian not found"
    ELSE NULL

\* AnimalService.assign_veterinarian: the error message, or NULL
ServiceAssignError(vet_id) ==
    IF FindActiveRole(vet_id, VETERINARIAN) = NoUser THEN "Veterinarian not found"
    ELSE IF users[vet_id].status # ACTIVE THEN "Veterinarian is not active"
    ELSE NULL

\* POST /animals/<animal_id>/assign-vet
assign_veterinarian(actor, animal_id, vet_id) ==
    LET op == "assign_veterinarian"
        id == FindActiveAnimal(animal_id)
    IN  /\ IF AuthStatus(actor, UserRole) # 200
           THEN /\ resp' = AuthRefusal(op, actor, animal_id, vet_id)
                /\ UNCHANGED animals
           ELSE IF users[actor].user_type \notin {FARMER, ADMIN}
           THEN /\ resp' = Response(op, actor, animal_id, vet_id, 403,
                                    "Only farmers and admins can assign veterinarians")
                /\ UNCHANGED animals
           ELSE IF id = NoAnimal
           THEN /\ resp' = Response(op, actor, animal_id, vet_id, 404, "Animal not found")
                /\ UNCHANGED animals
           ELSE IF FarmerDenied(actor, animals[id])
           THEN /\ resp' = Response(op, actor, animal_id, vet_id, 403, "Access denied")
                /\ UNCHANGED animals
           ELSE IF vet_id = NoUser
           THEN /\ resp' = Response(op, actor, animal_id, vet_id, 400,
                                    "Missing required fields")
                /\ UNCHANGED animals
           ELSE IF ServiceAssignError(vet_id) # NULL
           THEN /\ resp' = Response(op, actor, animal_id, vet_id, 400,
                                    ServiceAssignError(vet_id))
                /\ UNCHANGED animals
           ELSE /\ animals' = [animals EXCEPT ![id].veterinarian_id = vet_id]
                /\ resp' = DataResponse(op, actor, animal_id, vet_id, 200,
                                        "Veterinarian assigned successfully",
                                        Data(<<id>>, {}, 0))
        /\ UNCHANGED <<users, records, now, inflight>>

\* a variant that updates the health status and leaves the checkup date
apply_overall_condition_status_only(a, condition, checkup_date) ==
    IF condition = NULL THEN a ELSE [a EXCEPT !.health_status = condition]

\* AnimalService.create_health_record, after the record is added: the
\* animal follows a condition that was given
apply_overall_condition(a, condition, checkup_date) ==
    IF condition = NULL THEN a
    ELSE [a EXCEPT !.health_status = condition, !.last_checkup_date = checkup_date]

\* POST /animals/<animal_id>/health-records
create_health_record(actor, animal_id, overall_condition) ==
    LET op == "create_health_record"
        id == FindActiveAnimal(animal_id)
        condition == IF overall_condition = NULL THEN NULL
                     ELSE ParseEnum(overall_condition, HealthStatus)
    IN  /\ IF AuthStatus(actor, UserRole) # 200
           THEN /\ resp' = AuthRefusal(op, actor, animal_id, overall_condition)
                /\ UNCHANGED <<animals, records>>
           ELSE IF users[actor].user_type \notin {VETERINARIAN, ADMIN}
           THEN /\ resp' = Response(op, actor, animal_id, overall_condition, 403,
                        "Only veterinarians and admins can create health records")
                /\ UNCHANGED <<animals, records>>
           ELSE IF id = NoAnimal
           THEN /\ resp' = Response(op, actor, animal_id, overall_condition, 404,
                                    "Animal not found")
                /\ UNCHANGED <<animals, records>>
           ELSE IF /\ users[actor].user_type = VETERINARIAN
                   /\ animals[id].veterinarian_id # actor
           THEN /\ resp' = Response(op, actor, animal_id, overall_condition, 403,
                                    "Access denied. Animal not assigned to you")
                /\ UNCHANGED <<animals, records>>
           ELSE IF condition = Invalid
           THEN /\ resp' = Response(op, actor, animal_id, overall_condition, 400,
                                    "Invalid overall_condition")
                /\ UNCHANGED <<animals, records>>
           ELSE /\ records' = Append(records, HealthRecordRow(id, actor, condition))
                /\ animals' = [animals EXCEPT ![id] =
                        apply_overall_condition(animals[id], condition,
                            HealthRecordRow(id, actor, condition).checkup_date)]
                /\ resp' = DataResponse(op, actor, animal_id, overall_condition, 201,
                                        "Health record created successfully",
                                        Data(<<>>, {Len(records) + 1}, 0))
        /\ UNCHANGED <<users, now, inflight>>

\* AnimalService.get_animal_health_history: the animal's active records (the
\* store holds fewer than the default limit of 10)
get_animal_health_history(animal_id) ==
    {r \in DOMAIN records : records[r].animal_id = animal_id /\ records[r].is_active}

\* GET /animals/<animal_id>/health-records
get_animal_health_records(actor, animal_id) ==
    LET op == "get_animal_health_records"
        id == FindActiveAnimal(animal_id)
    IN  /\ IF AuthStatus(actor, UserRole) # 200
           THEN resp' = AuthRefusal(op, actor, animal_id, NULL)
           ELSE IF id = NoAnimal
           THEN resp' = Response(op, actor, animal_id, NULL, 404, "Animal not found")
           ELSE IF AccessDenied(actor, animals[id])
           THEN resp' = Response(op, actor, animal_id, NULL, 403, "Access denied")
           ELSE resp' = DataResponse(op, actor, animal_id, NULL, 200,
                                     "Health records retrieved successfully",
                                     Data(<<id>>, get_animal_health_history(id), 0))
        /\ UNCHANGED <<users, animals, records, now, inflight>>

\* DELETE /animals/<animal_id>
delete_animal(actor, animal_id) ==
    LET op == "delete_animal"
        id == FindActiveAnimal(animal_id)
    IN  /\ IF AuthStatus(actor, UserRole) # 200
           THEN /\ resp' = AuthRefusal(op, actor, animal_id, NULL)
                /\ UNCHANGED animals
           ELSE IF users[actor].user_type \notin {FARMER, ADMIN}
           THEN /\ resp' = Response(op, actor, animal_id, NULL, 403,
                                    "Only farmers and admins can delete animals")
                /\ UNCHANGED animals
           ELSE IF id = NoAnimal
           THEN /\ resp' = Response(op, actor, animal_id, NULL, 404, "Animal not found")
                /\ UNCHANGED animals
           ELSE IF FarmerDenied(actor, animals[id])
           THEN /\ resp' = Response(op, actor, animal_id, NULL, 403, "Access denied")
                /\ UNCHANGED animals
           ELSE /\ animals' = [animals EXCEPT ![id] = soft_delete(animals[id])]
                /\ resp' = Response(op, actor, animal_id, NULL, 200,
                                    "Animal deactivated successfully")
        /\ UNCHANGED <<users, records, now, inflight>>

\* the access check of get_farmer_animals and get_farmer_animals_summary: a
\* farmer reads only the own list; a veterinarian and an admin read any
FarmerListDenied(actor, farmer_id) ==
    IF users[actor].user_type = FARMER THEN actor # farmer_id
    ELSE users[actor].user_type \notin {ADMIN, VETERINARIAN}

\* GET /farmers/<farmer_id>/animals
get_farmer_animals(actor, farmer_id, f) ==
    LET op == "get_farmer_animals"
        query == {i \in ActiveAnimals : animals[i].farmer_id = farmer_id}
        found == ApplyFilters(query, f, FALSE)
        items == paginate_query(NewestFirst(found.ids), DefaultPage, DefaultPerPage)
    IN  /\ IF AuthStatus(actor, UserRole) # 200
           THEN resp' = AuthRefusal(op, actor, farmer_id, f)
           ELSE IF FarmerListDenied(actor, farmer_id)
           THEN resp' = Response(op, actor, farmer_id, f, 403, "Access denied")
           ELSE IF FindActiveRole(farmer_id, FARMER) = NoUser
           THEN resp' = Response(op, actor, farmer_id, f, 404, "Farmer not found")
           ELSE IF found.error # NULL
           THEN resp' = Response(op, actor, farmer_id, f, 400, found.error)
           ELSE resp' = DataResponse(op, actor, farmer_id, f, 200,
                                     "Farmer animals retrieved successfully",
                                     Data(items, {}, Cardinality(found.ids)))
        /\ UNCHANGED <<users, animals, records, now, inflight>>

\* GET /farmers/<farmer_id>/animals/summary: counts taken over the farmer's
\* active animals; no animal row is serialised
get_farmer_animals_summary(actor, farmer_id) ==
    LET op == "get_farmer_animals_summary"
        query == {i \in ActiveAnimals : animals[i].farmer_id = farmer_id}
    IN  /\ IF AuthStatus(actor, UserRole) # 200
           THEN resp' = AuthRefusal(op, actor, farmer_id, NULL)
           ELSE IF FarmerListDenied(actor, farmer_id)
           THEN resp' = Response(op, actor, farmer_id, NULL, 403, "Access denied")
           ELSE IF FindActiveRole(farmer_id, FARMER) = NoUser
           THEN resp' = Response(op, actor, farmer_id, NULL, 404, "Farmer not found")
           ELSE resp' = DataResponse(op, actor, farmer_id, NULL, 200,
                                     "Animals summary retrieved successfully",
                                     Data(<<>>, {}, Cardinality(query)))
        /\ UNCHANGED <<users, animals, records, now, inflight>>

\* time passes
TickTo(max) ==
    /\ \E d \in TickSteps : now + d <= max /\ now' = now + d
    /\ UNCHANGED <<users, animals, records, resp, inflight>>

(***************************************************************************)
(* The account state machine: every account request, in any order          *)
(***************************************************************************)
\* seeds.py: the administrator, active and pre-verified.  The farmers and the
\* veterinarian it also creates are rows registration and verification reach.
SeedAdmin == UserRow(ADMIN, AdminProfile, ACTIVE, TRUE)

Init ==
    /\ users = <<SeedAdmin>>
    /\ animals = <<>>
    /\ records = <<>>
    /\ now = 0
    /\ resp = NoResponse
    /\ inflight = NoRequests

\* the code generate_otp draws here, and the password a reset carries
OneCode == {"111111"}
SamePassword == {InitialPassword}

Next ==
    \/ \E p \in Profiles, c \in OneCode : register_farmer(p, c)
    \/ \E p \in Profiles, c \in OneCode : register_veterinarian(p, c)
    \/ \E a \in UserIds, p \in Profiles : register_admin(a, p)
    \/ \E e \in LookupEmails, c \in Codes, t \in VerificationTypes :
            verify_otp_endpoint(e, c, t)
    \/ \E e \in LookupEmails, c \in Codes, t \in VerificationTypes :
            verify_user(e, c, t)
    \/ \E e \in LookupEmails, c \in OneCode : resend_otp(e, c)
    \/ \E e \in LookupEmails, c \in OneCode : resend_verification(e, c)
    \/ \E e \in LookupEmails, c \in OneCode : forgot_password(e, c)
    \/ \E e \in LookupEmails, c \in Codes, pw \in SamePassword :
            reset_password(e, c, pw)
    \/ \E a \in UserIds, id \in RowIds, st \in StatusInputs :
            update_user_status(a, id, st)
    \/ \E a \in UserIds, id \in RowIds : delete_user(a, id)
    \/ \E e \in LookupEmails, pw \in NewPasswords : login(e, pw)

Spec == Init /\ [][Next]_vars

(***************************************************************************)
(* The OTP protocol on one account, with the clock: registration into an   *)
(* empty database, issuance, validation, and time passing                  *)
(***************************************************************************)
FreshProfile == {[email |-> "a@x.com", phone |-> "9876543212"]}

OtpEmails == {"a@x.com", "nobody@x.com"}

InitOtp ==
    /\ users = <<>>
    /\ animals = <<>>
    /\ records = <<>>
    /\ now = 0
    /\ resp = NoResponse
    /\ inflight = NoRequests

TickOtp == TickTo(MaxNow)

NextOtp ==
    \/ \E p \in FreshProfile, c \in Codes : register_farmer(p, c)
    \/ \E e \in OtpEmails, c \in Codes, t \in VerificationTypes :
            verify_otp_endpoint(e, c, t)
    \/ \E e \in OtpEmails, c \in Codes, t \in VerificationTypes :
            verify_user(e, c, t)
    \/ \E e \in OtpEmails, c \in Codes : resend_otp(e, c)
    \/ \E e \in OtpEmails, c \in Codes : resend_verification(e, c)
    \/ \E e \in OtpEmails, c \in Codes : forgot_password(e, c)
    \/ \E e \in OtpEmails, c \in Codes, pw \in NewPasswords :
            reset_password(e, c, pw)
    \/ TickOtp

SpecOtp == InitOtp /\ [][NextOtp]_vars

(***************************************************************************)
(* The animal store: every animal request, by every seeded user, one       *)
(* request at a time; listings carry at most a species filter here         *)
(***************************************************************************)
\* seeds.py: the administrator, the veterinarian and the two farmers, all
\* active and verified; their ids are 1, 2, 3 and 4
SeedUsers ==
    << SeedAdmin,
       UserRow(VETERINARIAN, [email |-> "rajesh.vet@farmportal.com", phone |-> "9876543211"],
               ACTIVE, TRUE),
       UserRow(FARMER, [email |-> "ramesh@farmportal.com", phone |-> "9876543212"],
               ACTIVE, TRUE),
       UserRow(FARMER, [email |-> "sunita@farmportal.com", phone |-> "9876543213"],
               ACTIVE, TRUE) >>

InitAnimals ==
    /\ users = SeedUsers
    /\ animals = <<>>
    /\ records = <<>>
    /\ now = 0
    /\ resp = NoResponse
    /\ inflight = NoRequests

\* request bodies of POST /animals: two animals and an unknown species
AnimalForms ==
    { [tag_id |-> <<"C", "1">>, name |-> NoText, species |-> "Cattle", gender |-> "female"],
      [tag_id |-> <<"H", "1">>, name |-> <<"L", "a">>, species |-> "poultry",
       gender |-> "female"],
      [tag_id |-> <<"D", "1">>, name |-> NoText, species |-> "dragon", gender |-> "male"] }

FarmerIdParams == {NoUser, 3, 4}
AnimalIdInputs == {1, 2}
VetIdInputs == {NoUser, 2, 3}
FarmerPathIds == {2, 3, 4}
\* request bodies of PUT /animals/<animal_id>, each a sequence of <<field,
\* value>>: a health status, an unknown one alone and next to notes, and a
\* field that is not updatable
UpdateBodies ==
    { << <<"health_status", "Sick">> >>, << <<"health_status", "healthy">> >>,
      << <<"health_status", "rabid">> >>, << <<"farmer_id", "4">> >>,
      << <<"notes", "calm">>, <<"health_status", "rabid">> >> }
ConditionInputs == {NULL, "Sick", "rabid"}

\* query strings of GET /animals and GET /animals/search: every combination
\* of a species, a health status, a search text and a farmer_id
Filters ==
    [ species       : {NULL, "Cattle", "dragon"},
      health_status : {NULL, "Sick"},
      search        : {NoText, <<"c">>, <<"l", "a">>},
      farmer_id     : {NoUser, 3} ]

\* query strings with at most a species
FarmerListFilters ==
    [ species : {NULL, "Cattle"}, health_status : {NULL}, search : {NoText},
      farmer_id : {NoUser} ]

\* the health records a run creates
MaxRecords == 1

\* the server has answered the previous request
Idle == resp.op = "none"

\* the response leaves the server
SendResponse ==
    /\ resp.op # "none"
    /\ resp' = NoResponse
    /\ UNCHANGED <<users, animals, records, now, inflight>>

NextAnimals ==
    \/ Idle /\ \E a \in UserIds, form \in AnimalForms, fid \in FarmerIdParams :
            create_animal(a, form, fid)
    \/ Idle /\ \E a \in UserIds, f \in FarmerListFilters : list_animals(a, f)
    \/ Idle /\ \E a \in UserIds, f \in FarmerListFilters : search_animals(a, f)
    \/ Idle /\ \E a \in UserIds, id \in AnimalIdInputs : get_animal(a, id)
    \/ Idle /\ \E a \in UserIds, id \in AnimalIdInputs, body \in UpdateBodies :
            update_animal(a, id, body)
    \/ Idle /\ \E a \in UserIds, id \in AnimalIdInputs, v \in VetIdInputs :
            assign_veterinarian(a, id, v)
    \/ Idle /\ Len(records) < MaxRecords
            /\ \E a \in UserIds, id \in AnimalIdInputs, c \in ConditionInputs :
                    create_health_record(a, id, c)
    \/ Idle /\ \E a \in UserIds, id \in AnimalIdInputs : get_animal_health_records(a, id)
    \/ Idle /\ \E a \in UserIds, id \in AnimalIdInputs : delete_animal(a, id)
    \/ Idle /\ \E a \in UserIds, fid \in FarmerPathIds, f \in FarmerListFilters :
            get_farmer_animals(a, fid, f)
    \/ Idle /\ \E a \in UserIds, fid \in FarmerPathIds : get_farmer_animals_summary(a, fid)
    \/ SendResponse

SpecAnimals == InitAnimals /\ [][NextAnimals]_vars

(***************************************************************************)
(* Listing and search: the requests that write the animals table, and      *)
(* GET /animals and GET /animals/search under every combination of filters *)
(***************************************************************************)
NextListing ==
    \/ Idle /\ \E a \in UserIds, form \in AnimalForms, fid \in FarmerIdParams :
            create_animal(a, form, fid)
    \/ Idle /\ \E a \in UserIds, id \in AnimalIdInputs, body \in UpdateBodies :
            update_animal(a, id, body)
    \/ Idle /\ \E a \in UserIds, id \in AnimalIdInputs, v \in VetIdInputs :
            assign_veterinarian(a, id, v)
    \/ Idle /\ \E a \in UserIds, id \in AnimalIdInputs : delete_animal(a, id)
    \/ Idle /\ \E a \in UserIds, f \in Filters : list_animals(a, f)
    \/ Idle /\ \E a \in UserIds, f \in Filters : search_animals(a, f)
    \/ SendResponse

SpecListing == InitAnimals /\ [][NextListing]_vars

(***************************************************************************)
(* Animals and accounts together: one animal is registered, assigned,      *)
(* examined and deactivated while an administrator changes the status of   *)
(* the veterinarian and of the farmer, or deletes them                     *)
(***************************************************************************)
\* the request body of POST /animals here: one animal
CareForms == {form \in AnimalForms : form.species = "Cattle"}

\* the accounts an administrator acts on: the veterinarian and a farmer
CareUserIds == {2, 3}

\* the statuses PUT /users/<user_id>/status carries here
CareStatuses == {ACTIVE, INACTIVE, SUSPENDED}

NextCare ==
    \/ Idle /\ \E a \in UserIds, form \in CareForms, fid \in FarmerIdParams :
            create_animal(a, form, fid)
    \/ Idle /\ \E a \in UserIds, id \in AnimalIdInputs, body \in UpdateBodies :
            update_animal(a, id, body)
    \/ Idle /\ \E a \in UserIds, id \in AnimalIdInputs, v \in VetIdInputs :
            assign_veterinarian(a, id, v)
    \/ Idle /\ Len(records) < MaxRecords
            /\ \E a \in UserIds, id \in AnimalIdInputs, c \in ConditionInputs :
                    create_health_record(a, id, c)
    \/ Idle /\ \E a \in UserIds, id \in AnimalIdInputs : delete_animal(a, id)
    \/ Idle /\ \E a \in UserIds, id \in CareUserIds, st \in CareStatuses :
            update_user_status(a, id, st)
    \/ Idle /\ \E a \in UserIds, id \in CareUserIds : delete_user(a, id)
    \/ SendResponse

SpecCare == InitAnimals /\ [][NextCare]_vars

(***************************************************************************)
(* Two workers side by side.  Registration, issuance, verification and     *)
(* password reset take one step per database round trip: the query that    *)
(* loads the row, then each commit.  A commit writes the attributes the    *)
(* handler assigned.  Each worker serves one request; before the first of  *)
(* them arrives, registrations are served one at a time.                   *)
(***************************************************************************)
\* identities the racing registrations carry: one email with two phones,
\* one phone with two emails
RaceProfiles ==
    { [email |-> "a@x.com", phone |-> "9876543212"],
      [email |-> "a@x.com", phone |-> "9876543213"],
      [email |-> "b@x.com", phone |-> "9876543212"] }

RaceEmails == {"a@x.com"}

MaxRaceNow == 10

Quiet == \A w \in Workers : inflight[w].pc = "idle"

Arrived(op, email, phone, code, arg) ==
    [IdleRequest EXCEPT !.op = op, !.email = email, !.phone = phone,
                        !.code = code, !.arg = arg]

\* the request answers: its response is built and the worker stops
Answer(w, r, status, msg, data) ==
    /\ resp' = DataResponse(r.op, NoUser, r.id, r.email, status, msg, data)
    /\ inflight' = [inflight EXCEPT ![w] = [r EXCEPT !.pc = "done", !.status = status]]

\* the request goes on to its next statement
Goto(w, r, pc) ==
    /\ inflight' = [inflight EXCEPT ![w] = [r EXCEPT !.pc = pc]]
    /\ UNCHANGED resp

\* a variant of the users table without the unique index on email
UniqueEmailNotEnforced(email) == FALSE

\* models/user.py: email is unique=True, so an INSERT of a second row with
\* this email raises IntegrityError; phone carries no such index
UniqueEmailViolated(email) == \E i \in UserIds : users[i].email = email

\* create_farmer up to its duplicate check
create_farmer_query(w, p, code) ==
    /\ inflight[w].pc = "idle"
    /\ LET r == Arrived("register_farmer", p.email, p.phone, code, NULL)
       IN  IF ExistingUser(p)
           THEN Answer(w, r, 400, "User with this email or phone already exists", NoData)
           ELSE Goto(w, r, "insert")
    /\ UNCHANGED <<users, animals, records, now>>

\* db.session.add(farmer); db.session.commit(), and the except branch
create_farmer_commit(w) ==
    LET r == inflight[w]
    IN  /\ r.pc = "insert"
        /\ IF UniqueEmailViolated(r.email)
           THEN /\ Answer(w, r, 400, "Failed to create farmer", NoData)
                /\ UNCHANGED users
           ELSE /\ users' = Append(users,
                       UserRow(FARMER, [email |-> r.email, phone |-> r.phone],
                               PENDING, FALSE))
                /\ Goto(w, [r EXCEPT !.id = Len(users) + 1, !.wrote = "created"], "otp")
        /\ UNCHANGED <<animals, records, now>>

\* initiate_user_verification: OTPService.generate_otp_for_user commits the
\* code and its timestamp, then the route answers 201
generate_otp_for_user_commit(w) ==
    LET r == inflight[w]
    IN  /\ r.pc = "otp"
        /\ users' = [users EXCEPT ![r.id] =
                generate_and_store_otp(users[r.id], r.code, "verification", now)]
        /\ Answer(w, r, 201, "registered successfully", AccountData)
        /\ UNCHANGED <<animals, records, now>>

\* POST /resend-otp up to the assignments of generate_and_store_otp: the
\* timestamp is taken here, before the commit
resend_otp_query(w, email, code) ==
    /\ inflight[w].pc = "idle"
    /\ LET id == FindActiveByEmail(email)
           r == [Arrived("resend_otp", email, NULL, code, NULL) EXCEPT !.id = id]
       IN  IF id = NoUser
           THEN Answer(w, r, 404, "User not found", NoData)
           ELSE IF is_verified(users[id])
           THEN Answer(w, r, 400, "User is already verified", NoData)
           ELSE Goto(w, [r EXCEPT !.t = now], "store")
    /\ UNCHANGED <<users, animals, records, now>>

\* a variant that takes the timestamp when it commits
generate_and_store_otp_commit_restamped(w) ==
    LET r == inflight[w]
    IN  /\ r.pc = "store"
        /\ users' = [users EXCEPT ![r.id] =
                generate_and_store_otp(users[r.id], r.code, "verification", now)]
        /\ Answer(w, [r EXCEPT !.wrote = "code"], 200, "OTP sent successfully", AccountData)
        /\ UNCHANGED <<animals, records, now>>

\* the commit of generate_and_store_otp: one UPDATE carries both columns
generate_and_store_otp_commit(w) ==
    LET r == inflight[w]
    IN  /\ r.pc = "store"
        /\ users' = [users EXCEPT ![r.id] =
                generate_and_store_otp(users[r.id], r.code, "verification", r.t)]
        /\ Answer(w, [r EXCEPT !.wrote = "code"], 200, "OTP sent successfully", AccountData)
        /\ UNCHANGED <<animals, records, now>>

\* POST /verify-otp up to verify_otp
verify_otp_query(w, email, provided_otp, verification_type) ==
    /\ inflight[w].pc = "idle"
    /\ LET id == FindActiveByEmail(email)
           r == [Arrived("verify_otp_endpoint", email, NULL, provided_otp,
                         verification_type) EXCEPT !.id = id]
           verdict == verify_otp(users[id], provided_otp, OTP_VALIDITY_MINUTES, now)
       IN  IF id = NoUser
           THEN Answer(w, r, 404, "User not found", NoData)
           ELSE IF verdict # "OTP verified successfully"
           THEN Answer(w, r, 400, verdict, NoData)
           ELSE Goto(w, [r EXCEPT !.email_verified = users[id].email_verified,
                                  !.phone_verified = users[id].phone_verified],
                     "verify")
    /\ UNCHANGED <<users, animals, records, now>>

\* auth/utils.py verify_user_account: the flags the type names are assigned,
\* the status when the session's row has both; the commit may fail, the
\* function then rolls back and returns False, which the route ignores
verify_user_account_commit(w, committed) ==
    LET r == inflight[w]
        row == users[r.id]
        session == verify_user_account(
                       [row EXCEPT !.email_verified = r.email_verified,
                                   !.phone_verified = r.phone_verified], r.arg)
    IN  /\ r.pc = "verify"
        /\ IF committed
           THEN /\ users' = [users EXCEPT ![r.id] =
                       [row EXCEPT
                           !.email_verified =
                               IF r.arg \in {"email", "both"} THEN TRUE ELSE @,
                           !.phone_verified =
                               IF r.arg \in {"phone", "both"} THEN TRUE ELSE @,
                           !.status = IF is_verified(session) THEN ACTIVE ELSE @]]
                /\ Goto(w, [r EXCEPT !.wrote = "verified"], "clear")
           ELSE /\ UNCHANGED users
                /\ Goto(w, r, "clear")
        /\ UNCHANGED <<animals, records, now>>

\* POST /reset-password up to verify_otp
reset_password_query(w, email, reset_code, new_password) ==
    /\ inflight[w].pc = "idle"
    /\ LET id == FindActiveByEmail(email)
           r == [Arrived("reset_password", email, NULL, reset_code, new_password)
                     EXCEPT !.id = id]
           verdict == verify_otp(users[id], reset_code,
                                 PASSWORD_RESET_VALIDITY_MINUTES, now)
       IN  IF id = NoUser
           THEN Answer(w, r, 400, "Invalid reset code", NoData)
           ELSE IF verdict # "OTP verified successfully"
           THEN Answer(w, r, 400, verdict, NoData)
           ELSE Goto(w, r, "password")
    /\ UNCHANGED <<users, animals, records, now>>

\* the commit of reset_user_password
reset_user_password_commit(w) ==
    LET r == inflight[w]
    IN  /\ r.pc = "password"
        /\ users' = [users EXCEPT ![r.id] = reset_user_password(users[r.id], r.arg)]
        /\ Goto(w, [r EXCEPT !.wrote = "password"], "clear")
        /\ UNCHANGED <<animals, records, now>>

\* clear_otp, the last statement of both routes: when its commit fails it
\* re-raises and handle_db_error answers 500
clear_otp_commit(w, committed) ==
    LET r == inflight[w]
    IN  /\ r.pc = "clear"
        /\ IF committed
           THEN /\ users' = [users EXCEPT ![r.id] = clear_otp(users[r.id])]
                /\ Answer(w, r, 200,
                          IF r.op = "reset_password" THEN "Password reset successfully"
                          ELSE "Account verified successfully", NoData)
           ELSE /\ UNCHANGED users
                /\ Answer(w, r, 500, "Database operation failed", NoData)
        /\ UNCHANGED <<animals, records, now>>

InitRace ==
    /\ users = <<>>
    /\ animals = <<>>
    /\ records = <<>>
    /\ now = 0
    /\ resp = NoResponse
    /\ inflight = NoRequests

TickRace == TickTo(MaxRaceNow)

NextRace ==
    \/ \E p \in RaceProfiles, c \in OneCode : Quiet /\ register_farmer(p, c)
    \/ TickRace
    \/ \E w \in Workers, p \in RaceProfiles, c \in Codes : create_farmer_query(w, p, c)
    \/ \E w \in Workers : create_farmer_commit(w)
    \/ \E w \in Workers : generate_otp_for_user_commit(w)
    \/ \E w \in Workers, e \in RaceEmails, c \in Codes : resend_otp_query(w, e, c)
    \/ \E w \in Workers : generate_and_store_otp_commit(w)
    \/ \E w \in Workers, e \in RaceEmails, c \in Codes, t \in VerificationTypes :
            verify_otp_query(w, e, c, t)
    \/ \E w \in Workers, committed \in BOOLEAN : verify_user_account_commit(w, committed)
    \/ \E w \in Workers, e \in RaceEmails, c \in Codes, pw \in NewPasswords :
            reset_password_query(w, e, c, pw)
    \/ \E w \in Workers : reset_user_password_commit(w)
    \/ \E w \in Workers, committed \in BOOLEAN : clear_otp_commit(w, committed)

SpecRace == InitRace /\ [][NextRace]_vars

(***************************************************************************)
(* Claims about the account state machine                                  *)
(***************************************************************************)
UnauthenticatedOps ==
    {"verify_otp_endpoint", "verify_user", "resend_otp", "resend_verification",
     "forgot_password", "reset_password"}

AdminOps == {"update_user_status", "delete_user", "register_admin"}

\* C1: in every reachable state a user whose status is Active has
\* email_verified and phone_verified both true.
C1_ActiveImpliesVerified ==
    \A i \in UserIds : users[i].status = ACTIVE => is_verified(users[i])

\* C2: a request of an unauthenticated handler (resend-OTP, forgot-password,
\* verify-OTP, reset-password) never changes the status of a user who is
\* Suspended.
C2_SuspendedLeftOnlyByAdmin ==
    [][\A i \in UserIds :
          (users[i].status = SUSPENDED /\ resp'.op \in UnauthenticatedOps)
              => users'[i].status = SUSPENDED]_vars

\* the status changes section 4.1 lists; a change out of Suspended, and the
\* change from Pending to Suspended, are an administrator's
ListedChange(old, new, op) ==
    \/ old = PENDING /\ new = ACTIVE
    \/ old = PENDING /\ new = SUSPENDED /\ op \in AdminOps
    \/ old = ACTIVE /\ new = INACTIVE
    \/ old = INACTIVE /\ new = ACTIVE
    \/ old = ACTIVE /\ new = SUSPENDED
    \/ old = SUSPENDED /\ op \in AdminOps

\* C3: every change of a user's status is Pending to Active, Pending to
\* Suspended by an admin, Active to Inactive, Inactive to Active, Active to
\* Suspended, or an admin's reactivation of a Suspended user.
C3_OnlyListedStatusChanges ==
    [][\A i \in UserIds :
          users'[i].status # users[i].status
              => ListedChange(users[i].status, users'[i].status, resp'.op)]_vars

\* C7: no request of an administrator A makes another administrator B
\* soft-deleted (is_active false, status Inactive).
C7_AdminNeverDeactivatesOtherAdmin ==
    [][\A b \in UserIds :
          (/\ users[b].user_type = ADMIN
           /\ users[b].is_active
           /\ ~users'[b].is_active)
              => resp'.actor = b]_vars

\* the rows, soft-deleted or not, that hold the credentials a login presented
HoldersOf(credentials) ==
    {i \in UserIds : /\ users[i].email = credentials.email
                     /\ users[i].password = credentials.password}

C14_LoginFailureNamesStatus ==
    [][(resp'.op = "login" /\ resp'.status # 200) =>
          \A i \in HoldersOf(resp'.arg) :
              /\ resp'.msg # "Invalid email or password"
              /\ users[i].status = PENDING => resp'.msg = "Account is pending verification"
              /\ users[i].status = INACTIVE => resp'.msg = "Account is inactive"
              /\ users[i].status = SUSPENDED => resp'.msg = "Account is suspended"]_vars

(***************************************************************************)
(* Claims about the OTP protocol                                           *)
(***************************************************************************)
VerifyOps == {"verify_otp_endpoint", "verify_user"}
ValidationOps == VerifyOps \cup {"reset_password"}

\* the validity window each handler validates with
WindowOf(op) ==
    IF op = "reset_password" THEN PASSWORD_RESET_VALIDITY_MINUTES
    ELSE OTP_VALIDITY_MINUTES

\* a step that is one validating request on a user the lookup found
ValidationStep ==
    /\ resp'.op \in ValidationOps
    /\ resp'.target # NoUser
    /\ now' = now

\* what the validation answered: its failure message, or success
Verdict(r) == IF r.status = 200 THEN "OTP verified successfully" ELSE r.msg

\* section 4.2 as claimed: expired exactly when now - issued_at > window
ClaimedVerdict(u, code, window, t) ==
    IF u.otp_code = NULL \/ u.otp_created_at = NoTime THEN "No OTP found for this user"
    ELSE IF u.otp_code # code THEN "Invalid OTP"
    ELSE IF t - u.otp_created_at > window THEN "OTP has expired"
    ELSE "OTP verified successfully"

\* the same with the boundary instant expired: now - issued_at >= window
BoundaryVerdict(u, code, window, t) ==
    IF u.otp_code = NULL \/ u.otp_created_at = NoTime THEN "No OTP found for this user"
    ELSE IF u.otp_code # code THEN "Invalid OTP"
    ELSE IF t - u.otp_created_at >= window THEN "OTP has expired"
    ELSE "OTP verified successfully"

\* C9 (as claimed): validation answers NoCodeIssued, else CodeMismatch, else
\* Expired exactly when now - issued_at > validity_window (a matching code at
\* exactly issued_at + validity_window is accepted), else succeeds; a failed
\* validation changes no stored state.
C9_ValidationAsClaimed ==
    [][ValidationStep =>
          LET v == ClaimedVerdict(users[resp'.target], resp'.arg, WindowOf(resp'.op), now)
          IN  /\ Verdict(resp') = v
              /\ (v # "OTP verified successfully" => users' = users)]_vars

\* C9 (amended): validation answers NoCodeIssued, else CodeMismatch, else
\* Expired exactly when now - issued_at >= validity_window (a matching code at
\* exactly issued_at + validity_window is already expired), else succeeds; a
\* failed validation changes no stored state.
C9_ValidationBoundaryExpired ==
    [][ValidationStep =>
          LET v == BoundaryVerdict(users[resp'.target], resp'.arg, WindowOf(resp'.op), now)
          IN  /\ Verdict(resp') = v
              /\ (v # "OTP verified successfully" => users' = users)]_vars

\* a matching code was presented at exactly issued_at + validity_window and
\* was answered Expired, the stored code left in place
C9_Witness ==
    /\ resp.op \in ValidationOps
    /\ resp.target # NoUser
    /\ resp.msg = "OTP has expired"
    /\ users[resp.target].otp_code = resp.arg
    /\ now = users[resp.target].otp_created_at + WindowOf(resp.op)

\* C10: a code is accepted only by the purpose it was issued for, and only
\* within that purpose's window: account verification accepts a signup
\* verification code for 10 minutes, reset-password a forgot-password code
\* for 30 minutes.
C10_CodeBoundToPurpose ==
    [][(ValidationStep /\ resp'.status = 200) =>
          LET u == users[resp'.target]
          IN  /\ u.otp_purpose =
                    (IF resp'.op \in VerifyOps THEN "verification" ELSE "password_reset")
              /\ now - u.otp_created_at <= WindowOf(resp'.op)]_vars

\* the requests that store a code
IssuanceOps ==
    {"register_farmer", "register_veterinarian", "resend_otp",
     "resend_verification", "forgot_password"}

\* C11: a code is single-use.  A verification or password reset that succeeds
\* leaves the user's stored code and issue timestamp both empty; the same code
\* presented again right afterwards finds no code; as long as the stored code
\* is empty or another one, a presented code is answered NoCodeIssued or
\* CodeMismatch; and only an issuance stores a code again.
C11_CodeSingleUse ==
    [][/\ (ValidationStep /\ resp'.status = 200) =>
              /\ users'[resp'.target].otp_code = NULL
              /\ users'[resp'.target].otp_created_at = NoTime
       /\ (/\ ValidationStep
           /\ resp.op \in ValidationOps /\ resp.status = 200
           /\ resp'.target = resp.target /\ resp'.arg = resp.arg) =>
              /\ resp'.msg = "No OTP found for this user"
              /\ users' = users
       /\ (ValidationStep /\ users[resp'.target].otp_code # resp'.arg) =>
              /\ resp'.msg \in {"No OTP found for this user", "Invalid OTP"}
              /\ resp'.status = 400
              /\ users' = users
       /\ \A i \in UserIds :
              (users[i].otp_code = NULL /\ users'[i].otp_code # NULL) =>
                  (resp'.op \in IssuanceOps /\ resp'.target = i)]_vars

\* an account whose code was consumed by a successful verification or reset
\* is presented a code again and answers that no code is stored
C11_Witness ==
    /\ resp.op \in ValidationOps
    /\ resp.target # NoUser
    /\ resp.msg = "No OTP found for this user"
    /\ users[resp.target].otp_code = NULL
    /\ users[resp.target].otp_created_at = NoTime
    /\ \/ users[resp.target].email_verified
       \/ users[resp.target].phone_verified
       \/ users[resp.target].password # InitialPassword

\* what a client observes of a response: the success flag, the message,
\* whether the body has a data field, and the status code
Observable(r) ==
    [success |-> r.status \in {200, 201}, message |-> r.msg,
     has_data |-> r.data.present, status_code |-> r.status]

\* C12: forgot-password does not reveal whether an email is registered: two
\* forgot-password requests, one for an email of an active user and one for
\* an email of no active user, get the same observable response; and a
\* request whose email matches no active user stores no code on any user.
C12_ForgotPasswordIndistinguishable ==
    [][resp'.op = "forgot_password" =>
          /\ (resp.op = "forgot_password" => Observable(resp') = Observable(resp))
          /\ (resp'.target = NoUser => users' = users)]_vars

IsRole(id, role) == id \in UserIds /\ users[id].user_type = role

\* the operations a farmer may attempt on one animal
OnAnimalOps ==
    {"get_animal", "update_animal", "assign_veterinarian", "delete_animal",
     "get_animal_health_records", "create_health_record"}

\* C4: every get, update, assign-veterinarian, delete, read-health-records
\* and create-health-record by a farmer on an active animal of another farmer
\* is answered 403 Forbidden and leaves users, animals and health records
\* unchanged; and an animal a farmer creates is one new row whose farmer_id is
\* that farmer's id, whatever farmer_id the request carries.
C4_FarmerConfinedToOwnAnimals ==
    [][/\ ( /\ resp'.op \in OnAnimalOps
            /\ IsRole(resp'.actor, FARMER)
            /\ resp'.target \in ActiveAnimals
            /\ animals[resp'.target].farmer_id # resp'.actor )
          => ( /\ resp'.status = 403
               /\ UNCHANGED <<users, animals, records>> )
       /\ ( /\ resp'.op = "create_animal"
            /\ IsRole(resp'.actor, FARMER)
            /\ resp'.status = 201 )
          => ( /\ Len(animals') = Len(animals) + 1
               /\ SubSeq(animals', 1, Len(animals)) = animals
               /\ resp'.target = Len(animals')
               /\ animals'[resp'.target].farmer_id = resp'.actor )]_vars

\* a farmer's update of another farmer's active animal was answered 403
C4_Witness ==
    /\ resp.op = "update_animal"
    /\ resp.status = 403
    /\ IsRole(resp.actor, FARMER)
    /\ resp.target \in ActiveAnimals
    /\ animals[resp.target].farmer_id # resp.actor

ReadOps ==
    {"get_animal", "get_animal_health_records", "list_animals", "search_animals",
     "get_farmer_animals", "get_farmer_animals_summary"}

\* C5: whatever a read path answers to a veterinarian V (single-animal get,
\* an animal's health records, the /animals list, /animals/search, a farmer's
\* animal list, a farmer's animal summary), every animal row and every health
\* record in it belongs to an animal whose veterinarian_id is V, and a summary
\* counts only such animals.
C5_VetReadsOnlyAssigned ==
    (resp.op \in ReadOps /\ IsRole(resp.actor, VETERINARIAN) /\ resp.status = 200) =>
        /\ \A i \in Range(resp.data.animals) : animals[i].veterinarian_id = resp.actor
        /\ \A r \in resp.data.records :
                animals[records[r].animal_id].veterinarian_id = resp.actor
        /\ resp.op = "get_farmer_animals_summary" =>
                resp.data.total =
                    Cardinality({i \in ActiveAnimals :
                                    /\ animals[i].farmer_id = resp.target
                                    /\ animals[i].veterinarian_id = resp.actor})

VetDeniedOps ==
    {"create_animal", "update_animal", "delete_animal", "assign_veterinarian"}

\* C6: every attempt by a veterinarian to create an animal, update an
\* animal's profile, soft-delete an animal or assign a veterinarian is denied
\* (no success status) and leaves the animals unchanged.
C6_VetWritesDenied ==
    [][(resp'.op \in VetDeniedOps /\ IsRole(resp'.actor, VETERINARIAN)) =>
          (resp'.status \notin {200, 201} /\ animals' = animals)]_vars

\* the active animals in the caller's role scope
ExpectedScope(actor, farmer_id) ==
    {i \in ActiveAnimals :
        /\ IsRole(actor, FARMER) => animals[i].farmer_id = actor
        /\ IsRole(actor, VETERINARIAN) => animals[i].veterinarian_id = actor
        /\ (IsRole(actor, ADMIN) /\ farmer_id # NoUser) => animals[i].farmer_id = farmer_id}

\* animal i matches the species, health_status and search filters of f
MatchesFilters(i, f) ==
    /\ f.species # NULL => animals[i].species = str_lower(f.species)
    /\ f.health_status # NULL => animals[i].health_status = str_lower(f.health_status)
    /\ f.search # NoText =>
            (ilike(animals[i].tag_id, f.search) \/ ilike(animals[i].name, f.search))

ExpectedListing(actor, f) ==
    {i \in ExpectedScope(actor, f.farmer_id) : MatchesFilters(i, f)}

\* C8: a successful /animals list or /animals/search answers, each once,
\* exactly the active animals that match the filters and have farmer_id = F
\* for a farmer F, veterinarian_id = V for a veterinarian V, and for an admin
\* every matching active animal (of the farmer_id parameter, when given); a
\* farmer's or veterinarian's farmer_id parameter changes nothing; a refused
\* query answers no animal.
C8_ListingsExactlyScoped ==
    resp.op \in {"list_animals", "search_animals"} =>
        IF resp.status = 200
        THEN /\ Range(resp.data.animals) = ExpectedListing(resp.actor, resp.arg)
             /\ Len(resp.data.animals) = Cardinality(ExpectedListing(resp.actor, resp.arg))
             /\ resp.data.total = Cardinality(ExpectedListing(resp.actor, resp.arg))
        ELSE resp.data.animals = <<>>

\* a farmer listed with another farmer's id as farmer_id, that farmer has an
\* active animal, and the answer held the caller's own animals
C8_Witness ==
    /\ resp.op = "list_animals"
    /\ resp.status = 200
    /\ IsRole(resp.actor, FARMER)
    /\ resp.arg.farmer_id # NoUser
    /\ resp.arg.farmer_id # resp.actor
    /\ \E i \in ActiveAnimals : animals[i].farmer_id = resp.arg.farmer_id
    /\ resp.data.animals # <<>>

(***************************************************************************)
(* Claims about animals while accounts change                              *)
(***************************************************************************)
\* C16: in every reachable state, every animal's veterinarian_id, when set,
\* refers to an existing veterinarian who is not soft-deleted and whose
\* status is Active, also after that veterinarian was deactivated, deleted
\* or suspended.
C16_AssignedVetExistsAndActive ==
    \A i \in AnimalIds :
        animals[i].veterinarian_id # NoUser =>
            /\ animals[i].veterinarian_id \in UserIds
            /\ users[animals[i].veterinarian_id].user_type = VETERINARIAN
            /\ users[animals[i].veterinarian_id].is_active
            /\ users[animals[i].veterinarian_id].status = ACTIVE

\* C17: in every reachable state, every animal has a health_status that is
\* one of the six enumerated values and a farmer_id that refers to an
\* existing farmer who is active (not soft-deleted), also after the owning
\* farmer was deleted or deactivated.
C17_AnimalHasStatusAndActiveFarmer ==
    \A i \in AnimalIds :
        /\ animals[i].health_status \in HealthStatus
        /\ animals[i].farmer_id \in UserIds
        /\ users[animals[i].farmer_id].user_type = FARMER
        /\ users[animals[i].farmer_id].is_active

\* a step that is one request to this handler
RequestTo(op) == resp.op = "none" /\ resp'.op = op

\* the row exists and is not soft-deleted
ActiveAnimal(id) == id \in AnimalIds /\ animals[id].is_active
ActiveVet(id) ==
    id \in UserIds /\ users[id].user_type = VETERINARIAN /\ users[id].is_active

\* C18: an assignment that names a veterinarian and passes authorization
\* fails as not found when the animal or the veterinarian is absent or
\* soft-deleted, fails as an invalid state when the veterinarian exists but
\* its status is not Active, and in both failures leaves veterinarian_id (and
\* everything else) unchanged; otherwise it sets the animal's
\* veterinarian_id to that veterinarian and changes nothing else.
C18_AssignVeterinarianOutcomes ==
    [][(/\ RequestTo("assign_veterinarian")
        /\ resp'.status \notin {401, 403}
        /\ resp'.arg # NoUser) =>
          LET id == resp'.target
              vet_id == resp'.arg
          IN  IF ~ActiveAnimal(id)
                  THEN /\ resp'.msg = "Animal not found"
                       /\ resp'.status = 404
                       /\ UNCHANGED <<users, animals, records>>
              ELSE IF ~ActiveVet(vet_id)
                  THEN /\ resp'.msg = "Veterinarian not found"
                       /\ resp'.status = 400
                       /\ UNCHANGED <<users, animals, records>>
              ELSE IF users[vet_id].status # ACTIVE
                  THEN /\ resp'.msg = "Veterinarian is not active"
                       /\ resp'.status = 400
                       /\ UNCHANGED <<users, animals, records>>
              ELSE /\ resp'.status = 200
                   /\ animals' = [animals EXCEPT ![id].veterinarian_id = vet_id]
                   /\ UNCHANGED <<users, records>>]_vars

\* a veterinarian who is not soft-deleted but suspended was refused, and the
\* animal is not assigned to that veterinarian
C18_Witness ==
    /\ resp.op = "assign_veterinarian"
    /\ resp.msg = "Veterinarian is not active"
    /\ ActiveVet(resp.arg)
    /\ users[resp.arg].status = SUSPENDED
    /\ animals[resp.target].veterinarian_id # resp.arg

\* C19: on an animal that is not soft-deleted, by an author who passes
\* authentication: creating a health record is denied as Forbidden, no
\* record added and the animal unchanged, unless the author is an admin or
\* the veterinarian currently assigned to the animal; when it is allowed and
\* a valid overall_condition is given, the record is added and the animal's
\* health_status becomes overall_condition and last_checkup_date the
\* record's checkup date in the same step; when overall_condition is absent
\* the record is added and the animal is unchanged.
C19_HealthRecordByAdminOrAssignedVet ==
    [][(/\ RequestTo("create_health_record")
        /\ AuthStatus(resp'.actor, UserRole) = 200
        /\ ActiveAnimal(resp'.target)) =>
          LET a == resp'.actor
              id == resp'.target
              given == resp'.arg
              condition == IF given = NULL THEN NULL ELSE ParseEnum(given, HealthStatus)
              allowed == \/ users[a].user_type = ADMIN
                         \/ /\ users[a].user_type = VETERINARIAN
                            /\ animals[id].veterinarian_id = a
          IN  IF ~allowed
                  THEN /\ resp'.status = 403
                       /\ UNCHANGED <<users, animals, records>>
              ELSE IF condition = Invalid
                  THEN /\ resp'.status = 400
                       /\ UNCHANGED <<users, animals, records>>
              ELSE /\ resp'.status = 201
                   /\ Len(records') = Len(records) + 1
                   /\ records'[Len(records')].animal_id = id
                   /\ records'[Len(records')].recorded_by_id = a
                   /\ records'[Len(records')].overall_condition = condition
                   /\ \A r \in DOMAIN records : records'[r] = records[r]
                   /\ animals' =
                        IF condition = NULL THEN animals
                        ELSE [animals EXCEPT
                                ![id].health_status = condition,
                                ![id].last_checkup_date =
                                    records'[Len(records')].checkup_date]
                   /\ UNCHANGED users]_vars

\* the assigned veterinarian recorded a condition, and the animal carries it
\* together with the checkup date of the record
C19_Witness ==
    /\ resp.op = "create_health_record"
    /\ resp.status = 201
    /\ users[resp.actor].user_type = VETERINARIAN
    /\ animals[resp.target].veterinarian_id = resp.actor
    /\ records # <<>>
    /\ records[Len(records)].overall_condition = "sick"
    /\ animals[resp.target].health_status = "sick"
    /\ animals[resp.target].last_checkup_date = records[Len(records)].checkup_date

\* C20: deactivation is idempotent for animals and for users: an
\* administrator's request to deactivate an animal or a user that is already
\* inactive is answered as a success and changes nothing.
C20_DeactivateIdempotent ==
    [][/\ (/\ RequestTo("delete_animal")
           /\ AuthStatus(resp'.actor, {ADMIN}) = 200
           /\ resp'.target \in AnimalIds
           /\ ~animals[resp'.target].is_active) =>
              /\ resp'.status = 200
              /\ UNCHANGED <<users, animals, records>>
       /\ (/\ RequestTo("delete_user")
           /\ AuthStatus(resp'.actor, {ADMIN}) = 200
           /\ resp'.target \in UserIds
           /\ ~users[resp'.target].is_active) =>
              /\ resp'.status = 200
              /\ UNCHANGED <<users, animals, records>>]_vars

(***************************************************************************)
(* Claims about rows and their lifecycle                                   *)
(***************************************************************************)
\* C21: no operation physically removes a user, an animal or a health
\* record, and every user and every animal with is_active false has its
\* deactivation timestamp deleted_at set.
C21_SoftDeleteTimestamped ==
    [][/\ Len(users') >= Len(users)
       /\ Len(animals') >= Len(animals)
       /\ Len(records') >= Len(records)
       /\ \A i \in DOMAIN users' :
              ~users'[i].is_active => users'[i].deleted_at # NoTime
       /\ \A i \in DOMAIN animals' :
              ~animals'[i].is_active => animals'[i].deleted_at # NoTime]_vars

\* the requests that register a user
RegisterOps == {"register_farmer", "register_veterinarian", "register_admin"}

\* a step that is one successful registration, and the row it created
Registered ==
    /\ resp'.op \in RegisterOps
    /\ resp'.status = 201
    /\ Len(users') = Len(users) + 1

\* the row is Pending and unverified, with a code and its issue timestamp
PendingWithCode(u) ==
    /\ u.status = PENDING
    /\ ~u.email_verified
    /\ ~u.phone_verified
    /\ u.otp_code # NULL
    /\ u.otp_created_at # NoTime

ReactivatedBy(a, i) ==
    /\ \E st \in StatusInputs : update_user_status(a, i, st)
    /\ users'[i].is_active
    /\ users'[i].status = ACTIVE
    /\ can_login(users'[i])

\* C30: deactivation of a user is reversible: in every state in which a
\* verified user is Inactive (deactivated by delete-user or by a status
\* update to inactive) and an admin can act, there is an admin request after
\* which that user's status is Active and the user can log in again.
C30_DeactivationReversible ==
    \A i \in UserIds :
        (/\ users[i].status = INACTIVE
         /\ is_verified(users[i])
         /\ \E a \in UserIds : AuthStatus(a, {ADMIN}) = 200) =>
            ENABLED (\E a \in UserIds : ReactivatedBy(a, i))

\* the request bodies of POST /animals whose species and gender are recognized
WellFormedForms ==
    {form \in AnimalForms : /\ ParseEnum(form.species, AnimalSpecies) # Invalid
                            /\ ParseEnum(form.gender, Gender) # Invalid}

\* farmer f registers an animal with this body and it is created
Registers(f, form) ==
    /\ create_animal(f, form, NoUser)
    /\ resp'.status = 201
    /\ Len(animals') = Len(animals) + 1

\* C25: an animal's tag is unique per farmer and not globally: a farmer's
\* request to register an animal is rejected, creating nothing, exactly when
\* an active animal of the same farmer has that tag_id; an animal of another
\* farmer with the same tag_id does not prevent it.
C25_TagUniquePerFarmer ==
    \A f \in UserIds, form \in WellFormedForms :
        (users[f].user_type = FARMER /\ AuthStatus(f, UserRole) = 200) =>
            (ENABLED Registers(f, form) <=>
                ~\E i \in ActiveAnimals : /\ animals[i].tag_id = form.tag_id
                                          /\ animals[i].farmer_id = f)

\* the request was answered as a success, or a table changed
Accepted ==
    \/ resp'.status \in {200, 201}
    \/ animals' # animals
    \/ records' # records

\* the body of an update supplies a value its enum does not recognize
SuppliesUnrecognized(update_data) ==
    \E k \in DOMAIN update_data :
        \/ /\ update_data[k][1] = "health_status"
           /\ ParseEnum(update_data[k][2], HealthStatus) = Invalid
        \/ /\ update_data[k][1] = "production_status"
           /\ ParseEnum(update_data[k][2], ProductionStatus) = Invalid

\* C26: an animal create, an animal update or a health-record create that
\* supplies an unrecognized value for species, gender, health_status,
\* production_status or overall_condition is never answered as a success and
\* changes nothing, by whoever sends it: the value is never skipped while the
\* rest of the request is applied.
C26_UnrecognizedValueRejected ==
    \A a \in UserIds :
        /\ \A form \in AnimalForms \ WellFormedForms, fid \in FarmerIdParams :
              ~ENABLED (create_animal(a, form, fid) /\ Accepted)
        /\ \A id \in AnimalIdInputs, body \in UpdateBodies :
              SuppliesUnrecognized(body) =>
                  ~ENABLED (update_animal(a, id, body) /\ Accepted)
        /\ \A id \in AnimalIdInputs, c \in ConditionInputs \ {NULL} :
              ParseEnum(c, HealthStatus) = Invalid =>
                  ~ENABLED (create_health_record(a, id, c) /\ Accepted)

(***************************************************************************)
(* Claims about requests served side by side                               *)
(***************************************************************************)
RegistrationOf(w) == inflight[w].op = "register_farmer"

\* the rows a registration's duplicate check looks for
Matching(r) == {i \in UserIds : users[i].email = r.email \/ users[i].phone = r.phone}

CreatedBy(w) == IF inflight[w].wrote = "created" THEN {inflight[w].id} ELSE {}

\* the two registrations met a database that held neither's email or phone:
\* every row that matches one of them was inserted by one of them
BothFresh(w1, w2) ==
    (Matching(inflight[w1]) \cup Matching(inflight[w2]))
        \subseteq (CreatedBy(w1) \cup CreatedBy(w2))

CreatedAndRefused(w1, w2) ==
    /\ inflight[w1].wrote = "created" /\ inflight[w1].status = 201
    /\ inflight[w2].wrote = "none" /\ inflight[w2].status = 400

\* C23: when two registrations with the same email are served side by side,
\* in any interleaving, exactly one of them creates a user and the other
\* answers with an error and creates nothing; in every reachable state no
\* two users share an email.
C23_ConcurrentSameEmail ==
    /\ \A i, j \in UserIds : i # j => users[i].email # users[j].email
    /\ \A w1, w2 \in Workers :
          ( /\ w1 # w2
            /\ RegistrationOf(w1) /\ RegistrationOf(w2)
            /\ inflight[w1].email = inflight[w2].email
            /\ inflight[w1].status # 0 /\ inflight[w2].status # 0
            /\ BothFresh(w1, w2) )
          => (CreatedAndRefused(w1, w2) \/ CreatedAndRefused(w2, w1))

\* both registrations passed the duplicate check, one inserted its row, and
\* the other's insert was refused by the index
C23_Witness ==
    /\ resp.op = "register_farmer" /\ resp.msg = "Failed to create farmer"
    /\ \E w1, w2 \in Workers :
          /\ w1 # w2
          /\ RegistrationOf(w1) /\ RegistrationOf(w2)
          /\ inflight[w1].email = inflight[w2].email
          /\ BothFresh(w1, w2)
          /\ CreatedAndRefused(w1, w2)

\* C24: when two registrations with the same phone and different emails are
\* served side by side, at most one of them creates a user; in every
\* reachable state no two users share a phone.
C24_ConcurrentSamePhone ==
    /\ \A i, j \in UserIds : i # j => users[i].phone # users[j].phone
    /\ \A w1, w2 \in Workers :
          ( /\ w1 # w2
            /\ RegistrationOf(w1) /\ RegistrationOf(w2)
            /\ inflight[w1].phone = inflight[w2].phone
            /\ inflight[w1].email # inflight[w2].email )
          => ~(inflight[w1].wrote = "created" /\ inflight[w2].wrote = "created")

\* an issuance that has committed its code
Issued(r) == r.op = "resend_otp" /\ r.wrote = "code"

Validates(u, code) ==
    verify_otp(u, code, OTP_VALIDITY_MINUTES, now) = "OTP verified successfully"

\* the issuance of worker w commits in this step
IssuanceCommits(w) == inflight[w].pc = "store" /\ inflight'[w].pc = "done"

StoredIsOwn(w) ==
    /\ users'[inflight[w].id].otp_code = inflight[w].code
    /\ users'[inflight[w].id].otp_created_at = inflight[w].t

VerificationOf(w) == inflight[w].op = "verify_otp_endpoint"

\* the code the request presented is still in the row and still passes verify_otp
CodeStillUsable(r) ==
    /\ users[r.id].otp_code = r.code
    /\ Validates(users[r.id], r.code)

\* C28: a verify-OTP request is all-or-nothing: a request that fails has
\* committed no change of the flags or the status, and in no reachable state
\* has a request committed the flags and the status while the code it
\* presented is still stored and usable.
C28_VerifyAllOrNothing ==
    \A w \in Workers :
        VerificationOf(w) =>
            /\ inflight[w].status \notin {0, 200} => inflight[w].wrote = "none"
            /\ ~(inflight[w].wrote = "verified" /\ CodeStillUsable(inflight[w]))

\* two requests of one kind that presented the same code for the same user;
\* no code is issued while they are served
SameCodePresented(w1, w2) ==
    /\ w1 # w2
    /\ inflight[w1].op = inflight[w2].op
    /\ inflight[w1].op \in {"reset_password", "verify_otp_endpoint"}
    /\ inflight[w1].id = inflight[w2].id
    /\ inflight[w1].code = inflight[w2].code

\* C29: when two reset-password requests, or two verify requests, that
\* present the same valid code for the same user are served side by side,
\* at most one of them succeeds: one issued code never authorizes two
\* password changes.
C29_CodeAuthorizesOneRequest ==
    \A w1, w2 \in Workers :
        SameCodePresented(w1, w2) =>
            /\ ~(inflight[w1].wrote # "none" /\ inflight[w2].wrote # "none")
            /\ ~(inflight[w1].status = 200 /\ inflight[w2].status = 200)
====
